---- MODULE Spec2Model ----
(***************************************************************************)
(* Model of backend/app.py: a Flask service over one SQLite table `tasks`. *)
(* Each HTTP handler is an operator from (request, database) to            *)
(* (database, response); the actions apply the handlers to the state.      *)
(***************************************************************************)
EXTENDS Integers, Sequences, FiniteSets, Bags, TLC

VARIABLES store, seq, now, last, issued, fresh, procs, gone

vars == <<store, seq, now, last, issued, fresh, procs, gone>>

\* Number of INSERT statements the model lets the handlers attempt.
MaxCreates == 2

----------------------------------------------------------------------------
\* Strings: sequences over a whitespace character, a character UTF-8 can
\* encode and one it cannot (a lone surrogate, written "u").

Chars == {" ", "a", "u"}
Whitespace == {" "}
Surrogates == {"u"}

\* str.encode('utf-8') raises UnicodeEncodeError.
Unencodable(s) == \E i \in 1..Len(s) : s[i] \in Surrogates

RECURSIVE lstrip(_)
lstrip(s) ==
    IF s # <<>> /\ Head(s) \in Whitespace THEN lstrip(Tail(s)) ELSE s

RECURSIVE rstrip(_)
rstrip(s) ==
    IF s # <<>> /\ s[Len(s)] \in Whitespace
    THEN rstrip(SubSeq(s, 1, Len(s) - 1))
    ELSE s

\* str.strip()
strip(s) == rstrip(lstrip(s))

----------------------------------------------------------------------------
\* JSON request bodies.  A value is tagged with its JSON type: "absent" is a
\* key the object does not have, "null" is None (what dict.get gives for it),
\* "zero" is the number 0 and "num" a number other than 0.  A title string is
\* a sequence of Chars, a status string is an atom.

AbsentTitle == [t |-> "absent", s |-> <<>>]
AbsentStatus == [t |-> "absent", s |-> ""]
NoneTitle == [t |-> "null", s |-> <<>>]
NoneStatus == [t |-> "null", s |-> ""]

\* The body `null`, a non-empty JSON array, and the JSON objects over the keys
\* task_title and task_status ({} is the object with neither key).
NullBody == [kind |-> "null", task_title |-> AbsentTitle, task_status |-> AbsentStatus]
ArrayBody == [kind |-> "array", task_title |-> AbsentTitle, task_status |-> AbsentStatus]
EmptyObject == [kind |-> "object", task_title |-> AbsentTitle, task_status |-> AbsentStatus]

Title(x) == [t |-> "str", s |-> x]
Status(x) == [t |-> "str", s |-> x]
Object(title, status) == [kind |-> "object", task_title |-> title, task_status |-> status]

\* The bodies the requests carry: no object; no title, a title that is a
\* number, empty, whitespace only; titles with whitespace around and inside;
\* a title UTF-8 cannot encode; no status, a status of the enum, a status
\* outside it.
Bodies ==
    {NullBody, ArrayBody, EmptyObject,
     Object([t |-> "zero", s |-> <<>>], AbsentStatus),
     Object([t |-> "num", s |-> <<>>], AbsentStatus),
     Object(Title(<<>>), AbsentStatus),
     Object(Title(<<" ">>), Status("done")),
     Object(Title(<<" ", "a", " ">>), AbsentStatus),
     Object(Title(<<"a", " ", "a">>), Status("done")),
     Object(Title(<<"a", " ", "a">>), Status("archived")),
     Object(Title(<<"u">>), AbsentStatus),
     Object(AbsentTitle, Status("archived")),
     Object(AbsentTitle, Status("pending"))}

\* Python truth value of request.get_json()'s result: None and {} are false.
DataTruthy(data) ==
    CASE data.kind = "null" -> FALSE
      [] data.kind = "array" -> TRUE
      [] OTHER -> data.task_title.t # "absent" \/ data.task_status.t # "absent"

\* dict.get(key, default)
Get(data, key, default) ==
    IF data[key].t = "absent" THEN default ELSE data[key]

\* Python truth value of a JSON scalar: None, 0 and "" are false.
PyTruthy(v) == v.t = "num" \/ (v.t = "str" /\ v.s # <<>>)

\* isinstance(v, str)
IsStr(v) == v.t = "str"

\* A flawed variant: the test without `title.strip()`.
TitleValidNoStrip(title) == PyTruthy(title) /\ IsStr(title)

\* `title and isinstance(title, str) and title.strip()`
TitleValid(title) ==
    PyTruthy(title) /\ IsStr(title) /\ strip(title.s) # <<>>

\* `status in ['pending', 'done']`
StatusValid(status) ==
    status.t = "str" /\ status.s \in {"pending", "done"}

----------------------------------------------------------------------------
\* The tasks table.

\* CHECK(task_status IN ('pending', 'done'))
SchemaOk(row) == row.task_status \in {"pending", "done"}

Max2(a, b) == IF a > b THEN a ELSE b

MaxRowId(rows) ==
    IF rows = {} THEN 0
    ELSE CHOOSE m \in {r.task_id : r \in rows} :
            \A r \in rows : r.task_id <= m

\* A flawed variant: the rowid of a plain INTEGER PRIMARY KEY.
NextRowIdReuse(rows, sq) == MaxRowId(rows) + 1

\* INTEGER PRIMARY KEY AUTOINCREMENT: one more than the largest rowid the
\* table has ever held (sqlite_sequence).
NextRowId(rows, sq) == Max2(sq, MaxRowId(rows)) + 1

\* INSERT INTO tasks (task_title, task_status, created_at) VALUES (?, ?, ?)
SqlInsert(rows, sq, title, status, created) ==
    LET row == [task_id |-> NextRowId(rows, sq), task_title |-> title,
                task_status |-> status, created_at |-> created]
    IN  IF SchemaOk(row)
        THEN [ok |-> TRUE, rows |-> rows \cup {row}, sq |-> row.task_id,
              lastrowid |-> row.task_id]
        ELSE [ok |-> FALSE, rows |-> rows, sq |-> sq, lastrowid |-> 0]

\* SELECT * FROM tasks WHERE task_id = ?
SqlSelectById(rows, id) == {r \in rows : r.task_id = id}

\* cursor.fetchone(): the first row in rowid order, or no row.
FetchOne(rows) ==
    IF rows = {} THEN {}
    ELSE {CHOOSE r \in rows : \A q \in rows : r.task_id <= q.task_id}

\* The `updates` dict of modify_task.
BuildUpdates(title, status) ==
    [has_title |-> TitleValid(title),
     task_title |-> IF TitleValid(title) THEN strip(title.s) ELSE <<>>,
     has_status |-> StatusValid(status),
     task_status |-> IF StatusValid(status) THEN status.s ELSE ""]

ApplyUpdates(r, updates) ==
    [r EXCEPT !.task_title = IF updates.has_title THEN updates.task_title ELSE @,
              !.task_status = IF updates.has_status THEN updates.task_status ELSE @]

\* A flawed variant: the UPDATE without its WHERE clause.
SqlUpdateAll(rows, id, updates) ==
    [ok |-> \A r \in rows : SchemaOk(ApplyUpdates(r, updates)),
     rows |-> {ApplyUpdates(r, updates) : r \in rows}]

\* UPDATE tasks SET ... WHERE task_id = ?
SqlUpdate(rows, id, updates) ==
    LET new == {IF r.task_id = id THEN ApplyUpdates(r, updates) ELSE r : r \in rows}
    IN  IF \A r \in new : SchemaOk(r)
        THEN [ok |-> TRUE, rows |-> new]
        ELSE [ok |-> FALSE, rows |-> rows]

\* DELETE FROM tasks WHERE task_id = ?
SqlDelete(rows, id) == {r \in rows : r.task_id # id}

\* sqlite3 binds a Python int to a 64-bit INTEGER and raises OverflowError
\* for 2**63 and above.  HugeId stands for such an id: the first integer above
\* the task_ids the table of the model issues.
HugeId == MaxCreates + 1
Overflows(id) == id >= HugeId

\* row_to_json applied to the result of fetchone(): the dict of the row's
\* columns, or None (no element) when there is no row.
Columns == {"task_id", "task_title", "task_status", "created_at"}
row_to_json(row) == {[col \in Columns |-> r[col]] : r \in row}

----------------------------------------------------------------------------
\* Handlers.  db is the database file, [rows, sq, clock]: the table, the
\* sqlite_sequence counter and the clock datetime.now() reads.  A handler runs
\* in steps: each step is the code up to and including one statement on the
\* store (an execute with the commit that follows it), create_task's read of
\* the clock being a step before its INSERT, and the steps of the handlers of
\* different requests interleave.  A step returns the database
\* after it and either the response (next = "idle"): its status, its error
\* message, its body (a set of JSON objects) and what became of the
\* connection: "none" (never opened), "closed" (conn.close() ran) or
\* "unclosed" (the handler returned without closing it); or the place the
\* handler goes on from (next) with the task_id and the timestamp it holds.
\* logOk: whether log_request's write succeeds.  fault: the store call of the
\* step that raises sqlite3.Error: "none", "connect" or "execute".

Faults == {"none", "connect", "execute"}

Reply(d, status, error, body, conn) ==
    [db |-> d, next |-> "idle", id |-> 0, created |-> 0, status |-> status,
     error |-> error, body |-> body, conn |-> conn]

Continue(d, next, id, created) ==
    [db |-> d, next |-> next, id |-> id, created |-> created, status |-> 0,
     error |-> "", body |-> {}, conn |-> "open"]

\* except sqlite3.Error: 500 'DB issue: ...'
DbIssue(d, conn) == Reply(d, 500, "DB issue", {}, conn)

\* An exception no handler catches (OSError from log_request, AttributeError
\* from data.get on a non-object): Flask answers 500.
Unhandled(d) == Reply(d, 500, "Internal Server Error", {}, "none")

\* An exception of cur.execute that is no sqlite3.Error (UnicodeEncodeError,
\* OverflowError from binding a parameter): no except clause catches it,
\* Flask answers 500 and conn.close() is not reached.
Uncaught(d) == Reply(d, 500, "Internal Server Error", {}, "unclosed")

fetch_all_tasks(logOk, fault, d) ==
    IF ~logOk THEN Unhandled(d)
    ELSE IF fault = "connect" THEN DbIssue(d, "none")
    ELSE IF fault = "execute" THEN DbIssue(d, "unclosed")
    ELSE Reply(d, 200, "", UNION {row_to_json({r}) : r \in d.rows}, "closed")

\* create_task's INSERT and commit; created is the timestamp read before.
create_task_insert(title, status, created, fault, d) ==
    LET ins == SqlInsert(d.rows, d.sq, strip(title.s), status.s, created)
    IN  IF fault = "execute" THEN DbIssue(d, "unclosed")
        ELSE IF Unencodable(strip(title.s)) THEN Uncaught(d)
        ELSE IF ~ins.ok THEN DbIssue(d, "unclosed")
        ELSE Continue([d EXCEPT !.rows = ins.rows, !.sq = ins.sq],
                      "create_select", ins.lastrowid, created)

\* A flawed variant: the blank-title test runs after the insert.
create_task_begin_late(data, logOk, fault, d) ==
    IF ~logOk THEN Unhandled(d)
    ELSE IF ~DataTruthy(data) THEN Reply(d, 400, "No JSON data provided", {}, "none")
    ELSE IF data.kind # "object" THEN Unhandled(d)
    ELSE LET title == Get(data, "task_title", NoneTitle)
             status == Get(data, "task_status", [t |-> "str", s |-> "pending"])
             r == create_task_insert(title, status, d.clock + 1, fault,
                                     [d EXCEPT !.clock = d.clock + 1])
         IN  IF ~TitleValidNoStrip(title)
             THEN Reply(d, 400, "Task title must be a non-empty string", {}, "none")
             ELSE IF ~StatusValid(status)
             THEN Reply(d, 400, "Status must be pending or done", {}, "none")
             ELSE IF ~TitleValid(title)
             THEN Reply(r.db, 400, "Task title must be a non-empty string", {}, "closed")
             ELSE IF fault = "connect" THEN DbIssue(d, "none")
             ELSE Continue([d EXCEPT !.clock = d.clock + 1], "create_insert", 0,
                           d.clock + 1)

\* create_task up to the call of the INSERT's execute: the validation,
\* sqlite3.connect and datetime.now(), which the arguments of execute read.
create_task_begin(data, logOk, fault, d) ==
    IF ~logOk THEN Unhandled(d)
    ELSE IF ~DataTruthy(data) THEN Reply(d, 400, "No JSON data provided", {}, "none")
    ELSE IF data.kind # "object" THEN Unhandled(d)
    ELSE LET title == Get(data, "task_title", NoneTitle)
             status == Get(data, "task_status", [t |-> "str", s |-> "pending"])
         IN  IF ~TitleValid(title)
             THEN Reply(d, 400, "Task title must be a non-empty string", {}, "none")
             ELSE IF ~StatusValid(status)
             THEN Reply(d, 400, "Status must be pending or done", {}, "none")
             ELSE IF fault = "connect" THEN DbIssue(d, "none")
             ELSE Continue([d EXCEPT !.clock = d.clock + 1], "create_insert", 0,
                           d.clock + 1)

\* create_task from the SELECT of the new row to the response.
create_task_end(new_id, fault, d) ==
    LET new_task == FetchOne(SqlSelectById(d.rows, new_id))
    IN  IF fault = "execute" THEN DbIssue(d, "unclosed")
        ELSE IF new_task # {}
        THEN Reply(d, 201, "", row_to_json(new_task), "closed")
        ELSE Reply(d, 500, "Could not fetch new task", {}, "closed")

\* A flawed variant: the SELECT without its WHERE clause.
fetch_task_first(task_id, logOk, fault, d) ==
    LET task == FetchOne(d.rows)
    IN  IF ~logOk THEN Unhandled(d)
        ELSE IF fault = "connect" THEN DbIssue(d, "none")
        ELSE IF fault = "execute" THEN DbIssue(d, "unclosed")
        ELSE IF Overflows(task_id) THEN Uncaught(d)
        ELSE IF task = {} THEN Reply(d, 404, "Task not found", {}, "closed")
        ELSE Reply(d, 200, "", row_to_json(task), "closed")

fetch_task(task_id, logOk, fault, d) ==
    LET task == FetchOne(SqlSelectById(d.rows, task_id))
    IN  IF ~logOk THEN Unhandled(d)
        ELSE IF fault = "connect" THEN DbIssue(d, "none")
        ELSE IF fault = "execute" THEN DbIssue(d, "unclosed")
        ELSE IF Overflows(task_id) THEN Uncaught(d)
        ELSE IF task = {} THEN Reply(d, 404, "Task not found", {}, "closed")
        ELSE Reply(d, 200, "", row_to_json(task), "closed")

\* The `updates` dict modify_task builds from the body.
UpdatesOf(data) ==
    BuildUpdates(Get(data, "task_title", NoneTitle),
                 Get(data, "task_status", NoneStatus))

\* modify_task up to its existence check.
modify_task_begin(task_id, data, logOk, fault, d) ==
    IF ~logOk THEN Unhandled(d)
    ELSE IF ~DataTruthy(data) THEN Reply(d, 400, "No JSON data provided", {}, "none")
    ELSE IF data.kind # "object" THEN Unhandled(d)
    ELSE IF ~UpdatesOf(data).has_title /\ ~UpdatesOf(data).has_status
         THEN Reply(d, 400, "Nothing to update", {}, "none")
    ELSE IF fault = "connect" THEN DbIssue(d, "none")
    ELSE IF fault = "execute" THEN DbIssue(d, "unclosed")
    ELSE IF Overflows(task_id) THEN Uncaught(d)
    ELSE IF FetchOne(SqlSelectById(d.rows, task_id)) = {}
         THEN Reply(d, 404, "Task not found", {}, "closed")
    ELSE Continue(d, "modify_update", task_id, 0)

\* modify_task's UPDATE and commit.
modify_task_update(task_id, data, fault, d) ==
    LET upd == SqlUpdate(d.rows, task_id, UpdatesOf(data))
    IN  IF fault = "execute" THEN DbIssue(d, "unclosed")
        ELSE IF Unencodable(UpdatesOf(data).task_title) THEN Uncaught(d)
        ELSE IF ~upd.ok THEN DbIssue(d, "unclosed")
        ELSE Continue([d EXCEPT !.rows = upd.rows], "modify_select", task_id, 0)

\* modify_task from the SELECT of the updated row to the response.
modify_task_end(task_id, fault, d) ==
    LET updated_task == FetchOne(SqlSelectById(d.rows, task_id))
    IN  IF fault = "execute" THEN DbIssue(d, "unclosed")
        ELSE IF updated_task # {}
        THEN Reply(d, 200, "", row_to_json(updated_task), "closed")
        ELSE Reply(d, 500, "Could not fetch updated task", {}, "closed")

\* remove_task up to its existence check.
remove_task_begin(task_id, logOk, fault, d) ==
    IF ~logOk THEN Unhandled(d)
    ELSE IF fault = "connect" THEN DbIssue(d, "none")
    ELSE IF fault = "execute" THEN DbIssue(d, "unclosed")
    ELSE IF Overflows(task_id) THEN Uncaught(d)
    ELSE IF FetchOne(SqlSelectById(d.rows, task_id)) = {}
         THEN Reply(d, 404, "Task not found", {}, "closed")
    ELSE Continue(d, "remove_delete", task_id, 0)

\* remove_task's DELETE, commit and 204.
remove_task_end(task_id, fault, d) ==
    IF fault = "execute" THEN DbIssue(d, "unclosed")
    ELSE Reply([d EXCEPT !.rows = SqlDelete(d.rows, task_id)], 204, "", {}, "closed")

----------------------------------------------------------------------------
\* State.  store, seq: the tasks table and its sqlite_sequence counter.
\* now: the clock.  procs: the bag of the handlers that have taken a step
\* and not answered yet, each at its place (pc) with what it holds.  last: the
\* response being sent, with its request (NoRequest when none is).  History:
\* issued, the task_ids the 201 responses returned; gone, the number of 204
\* responses per id; fresh, the 201 bodies of the tasks no step of a PUT or
\* DELETE has addressed since.

TaskIds == 1..MaxCreates

\* The ids <int:task_id> takes from the URL of a request.
Ids == TaskIds \cup {HugeId}

\* The threads of the server: it handles two requests at a time, which is
\* what each race between the steps of two handlers takes.
Procs == {1, 2}

NoRequest ==
    [op |-> "none", id |-> 0, data |-> NullBody, logOk |-> TRUE, fault |-> "none",
     status |-> 0, error |-> "", body |-> {}, conn |-> "none"]

\* A handler that has taken no step.
Idle == [pc |-> "idle", id |-> 0, created |-> 0, data |-> NullBody]

Init ==
    /\ store = {}
    /\ seq = 0
    /\ now = 0
    /\ last = NoRequest
    /\ issued = {}
    /\ fresh = {}
    /\ procs = EmptyBag
    /\ gone = [i \in TaskIds |-> 0]

db == [rows |-> store, sq |-> seq, clock |-> now]

\* The ids a 204 has answered.
deleted == {i \in TaskIds : gone[i] > 0}

\* A server of n threads takes a new request.
Free(n) ==
    /\ last = NoRequest
    /\ BagCardinality(procs) < n

\* The handlers at the place pc that may take their step.
At(pc) == {h \in BagToSet(procs) : last = NoRequest /\ h.pc = pc}

\* One step r of the handler h (Idle for its first step) for the request
\* (op, id, data).  The response of a step is sent before the next step is
\* taken, which orders no two steps on the store.  gc: whether the
\* interpreter has finalized a connection the handler left unclosed.
Step(h, op, id, data, logOk, fault, gc, r) ==
    /\ r.db.clock <= MaxCreates
    /\ store' = r.db.rows
    /\ seq' = r.db.sq
    /\ now' = r.db.clock
    /\ \E rest \in {IF h = Idle THEN procs ELSE procs (-) SetToBag({h})} :
          procs' = IF r.next = "idle" THEN rest
                   ELSE rest (+) SetToBag({[pc |-> r.next, id |-> r.id,
                                            created |-> r.created,
                                            data |-> data]})
    /\ last' = IF r.next = "idle"
                THEN [op |-> op, id |-> id, data |-> data, logOk |-> logOk,
                      fault |-> fault, status |-> r.status, error |-> r.error,
                      body |-> r.body,
                      conn |-> IF r.conn = "unclosed"
                               THEN (IF gc THEN "finalized" ELSE "open")
                               ELSE r.conn]
                ELSE NoRequest
    /\ issued' = IF op = "create" /\ r.status = 201
                  THEN issued \cup {b.task_id : b \in r.body}
                  ELSE issued
    /\ gone' = IF op = "delete" /\ r.status = 204
                THEN [gone EXCEPT ![id] = @ + 1]
                ELSE gone
    /\ fresh' = IF op = "create" /\ r.status = 201
                 THEN fresh \cup r.body
                 ELSE IF op \in {"update", "delete"}
                 THEN {b \in fresh : b.task_id # id}
                 ELSE fresh

FetchAllTasks(n, logOk, fault, gc) ==
    /\ Free(n)
    /\ \E r \in {fetch_all_tasks(logOk, fault, db)} :
          Step(Idle, "list", 0, NullBody, logOk, fault, gc, r)

FetchTask(n, logOk, fault, gc) ==
    /\ Free(n)
    /\ \E id \in Ids :
          \E r \in {fetch_task(id, logOk, fault, db)} :
             Step(Idle, "get", id, NullBody, logOk, fault, gc, r)

CreateTaskBegin(n, logOk, fault, gc) ==
    /\ Free(n)
    /\ \E data \in Bodies :
          \E r \in {create_task_begin(data, logOk, fault, db)} :
             Step(Idle, "create", 0, data, logOk, fault, gc, r)

CreateTaskInsert(fault, gc) ==
    /\ last = NoRequest
    /\ \E h \in At("create_insert") :
          \E r \in {create_task_insert(
                      Get(h.data, "task_title", NoneTitle),
                      Get(h.data, "task_status", [t |-> "str", s |-> "pending"]),
                      h.created, fault, db)} :
             Step(h, "create", 0, h.data, TRUE, fault, gc, r)

CreateTaskSelect(fault, gc) ==
    /\ last = NoRequest
    /\ \E h \in At("create_select") :
          \E r \in {create_task_end(h.id, fault, db)} :
             Step(h, "create", 0, h.data, TRUE, fault, gc, r)

\* modify_task gets past `if not updates` with the body and goes on to the
\* SELECT, the first statement to read task_id.
ReachesStore(data) ==
    /\ DataTruthy(data)
    /\ data.kind = "object"
    /\ UpdatesOf(data).has_title \/ UpdatesOf(data).has_status

\* The PUT requests: a body modify_task answers before it reads task_id goes
\* to task 1, the others to every task_id, and one of them to HugeId.
UpdateRequests ==
    {x \in Ids \X Bodies :
        IF ReachesStore(x[2])
        THEN x[1] = HugeId => x[2] = Object(AbsentTitle, Status("pending"))
        ELSE x[1] = 1}

ModifyTaskSelect(n, logOk, fault, gc) ==
    /\ Free(n)
    /\ \E x \in UpdateRequests :
          \E r \in {modify_task_begin(x[1], x[2], logOk, fault, db)} :
             Step(Idle, "update", x[1], x[2], logOk, fault, gc, r)

ModifyTaskUpdate(fault, gc) ==
    /\ last = NoRequest
    /\ \E h \in At("modify_update") :
          \E r \in {modify_task_update(h.id, h.data, fault, db)} :
             Step(h, "update", h.id, h.data, TRUE, fault, gc, r)

ModifyTaskSelectAgain(fault, gc) ==
    /\ last = NoRequest
    /\ \E h \in At("modify_select") :
          \E r \in {modify_task_end(h.id, fault, db)} :
             Step(h, "update", h.id, h.data, TRUE, fault, gc, r)

RemoveTaskSelect(n, logOk, fault, gc) ==
    /\ Free(n)
    /\ \E id \in Ids :
          \E r \in {remove_task_begin(id, logOk, fault, db)} :
             Step(Idle, "delete", id, NullBody, logOk, fault, gc, r)

RemoveTaskDelete(fault, gc) ==
    /\ last = NoRequest
    /\ \E h \in At("remove_delete") :
          \E r \in {remove_task_end(h.id, fault, db)} :
             Step(h, "delete", h.id, NullBody, TRUE, fault, gc, r)

\* The response leaves the server.
SendResponse ==
    /\ last # NoRequest
    /\ last' = NoRequest
    /\ UNCHANGED <<store, seq, now, issued, fresh, procs, gone>>

\* The server handles as many requests as it has threads at the same time,
\* their steps interleaved; the log and the store do not fail.
Next ==
    \/ SendResponse
    \/ \E n \in {Cardinality(Procs)} :
        \/ FetchAllTasks(n, TRUE, "none", FALSE)
        \/ FetchTask(n, TRUE, "none", FALSE)
        \/ CreateTaskBegin(n, TRUE, "none", FALSE)
        \/ ModifyTaskSelect(n, TRUE, "none", FALSE)
        \/ RemoveTaskSelect(n, TRUE, "none", FALSE)
    \/ CreateTaskInsert("none", FALSE)
    \/ CreateTaskSelect("none", FALSE)
    \/ ModifyTaskUpdate("none", FALSE)
    \/ ModifyTaskSelectAgain("none", FALSE)
    \/ RemoveTaskDelete("none", FALSE)

Spec == Init /\ [][Next]_vars

\* What may fail in one step: nothing, the log write (the store is then
\* never reached), sqlite3.connect, or an execute or commit.
FaultCases ==
    {[logOk |-> TRUE, fault |-> "none", gc |-> FALSE],
     [logOk |-> FALSE, fault |-> "none", gc |-> FALSE],
     [logOk |-> TRUE, fault |-> "connect", gc |-> FALSE]}
    \cup [logOk : {TRUE}, fault : {"execute"}, gc : BOOLEAN]

\* The faults of a step after the handler's first: the log is written and the
\* connection is open.
LaterFaultCases == {c \in FaultCases : c.logOk /\ c.fault # "connect"}

\* The server handles one request at a time; the log write or a store call
\* may fail.
FaultNext ==
    \/ SendResponse
    \/ \E c \in FaultCases :
          \/ FetchAllTasks(1, c.logOk, c.fault, c.gc)
          \/ FetchTask(1, c.logOk, c.fault, c.gc)
          \/ CreateTaskBegin(1, c.logOk, c.fault, c.gc)
          \/ ModifyTaskSelect(1, c.logOk, c.fault, c.gc)
          \/ RemoveTaskSelect(1, c.logOk, c.fault, c.gc)
    \/ \E c \in LaterFaultCases :
          \/ CreateTaskInsert(c.fault, c.gc)
          \/ CreateTaskSelect(c.fault, c.gc)
          \/ ModifyTaskUpdate(c.fault, c.gc)
          \/ ModifyTaskSelectAgain(c.fault, c.gc)
          \/ RemoveTaskDelete(c.fault, c.gc)

SpecFault == Init /\ [][FaultNext]_vars

----------------------------------------------------------------------------
\* Properties.

NonBlank(s) == \E i \in 1..Len(s) : s[i] \notin Whitespace

\* What the claims call a valid supplied value.
ValidTitleValue(v) == v.t = "str" /\ NonBlank(v.s)
ValidStatusValue(v) == v.t = "str" /\ v.s \in {"pending", "done"}

HasRow(rows, id) == \E r \in rows : r.task_id = id

\* A step that is the whole handling of a request: its first step answers.
Answered == last = NoRequest /\ last' # NoRequest /\ procs' = procs

\* A step that is the first of a handler, which goes on as g.
Starts(g) == procs' = procs (+) SetToBag({g})

\* A step of the handler h, which goes on (as some g) or answers.
Leaves(h) ==
    \/ procs' = procs (-) SetToBag({h})
    \/ \E g \in BagToSet(procs') :
          g # h /\ procs' = (procs (-) SetToBag({h})) (+) SetToBag({g})

\* The first step of the handler of the request (op, id, data).
FirstStep(op, id, data, logOk, fault, d) ==
    CASE op = "list" -> fetch_all_tasks(logOk, fault, d)
      [] op = "get" -> fetch_task(id, logOk, fault, d)
      [] op = "create" -> create_task_begin(data, logOk, fault, d)
      [] op = "update" -> modify_task_begin(id, data, logOk, fault, d)
      [] op = "delete" -> remove_task_begin(id, logOk, fault, d)

\* C1: task_ids strictly increase in the order they are assigned, so every
\* successful create returns a task_id strictly greater than the task_id
\* returned by every earlier successful create and no id is assigned twice,
\* also after the task with the highest id was deleted: the INSERT assigns
\* an id above every id a 201 returned, every id stored and every id an
\* INSERT gave a create still being handled, and the 201 returns that id,
\* which no 201 returned before.
C1_IdsStrictlyIncrease ==
    [][/\ \A h \in BagToSet(procs), g \in BagToSet(procs') :
             ( /\ h.pc = "create_insert"
               /\ g.pc = "create_select"
               /\ procs' = (procs (-) SetToBag({h})) (+) SetToBag({g}))
               => /\ \A i \in issued : g.id > i
                  /\ \A r \in store : g.id > r.task_id
                  /\ \A q \in BagToSet(procs) :
                        q.pc = "create_select" => g.id > q.id
       /\ \A h \in BagToSet(procs) :
             (h.pc = "create_select" /\ Leaves(h) /\ last'.status = 201)
               => \A b \in last'.body :
                     b.task_id = h.id /\ b.task_id \notin issued]_vars

\* A create succeeded right after the task with the highest id was deleted.
C1_Witness ==
    /\ last.op = "create" /\ last.status = 201
    /\ \E b \in last.body :
          /\ b.task_id - 1 \in deleted
          /\ \A r \in store : r.task_id >= b.task_id

\* C2: every persisted task has task_status 'pending' or 'done' and a
\* task_title that is non-empty with no leading or trailing whitespace.
C2_PersistedTasksValid ==
    \A r \in store :
        /\ r.task_status \in {"pending", "done"}
        /\ r.task_title # <<>>
        /\ r.task_title[1] \notin Whitespace
        /\ r.task_title[Len(r.task_title)] \notin Whitespace

\* A request carrying the title " a " was stored, as "a".
C2_Witness ==
    /\ last.status \in {200, 201}
    /\ last.data.task_title.t = "str"
    /\ last.data.task_title.s = <<" ", "a", " ">>
    /\ \E r \in last.body : r.task_title = <<"a">>
    /\ \E r \in store : r.task_title = <<"a">>

\* C3: a PUT changes only the fields of its task whose supplied value is
\* valid: its UPDATE step keeps the task's task_id and created_at, the fields
\* omitted or supplied with an invalid value, and every other task; the other
\* steps of a PUT, the one that answers 200 among them, change no task.
C3_UpdateFrame ==
    [][/\ \A h \in BagToSet(procs) :
             (h.pc = "modify_update" /\ Leaves(h)) =>
                /\ \A old \in store :
                      \E new \in store' :
                         /\ new.task_id = old.task_id
                         /\ new.created_at = old.created_at
                         /\ (old.task_id # h.id
                               \/ ~ValidTitleValue(h.data.task_title))
                              => new.task_title = old.task_title
                         /\ (old.task_id # h.id
                               \/ ~ValidStatusValue(h.data.task_status))
                              => new.task_status = old.task_status
                /\ Cardinality(store') = Cardinality(store)
       /\ \A h \in BagToSet(procs) :
             (h.pc = "modify_select" /\ Leaves(h)) => store' = store
       /\ \A g \in BagToSet(procs') :
             (g.pc = "modify_update" /\ Starts(g)) => store' = store
       /\ (Answered /\ last'.op = "update") => store' = store]_vars

\* A PUT with a valid title and the status 'archived' changed the title of a
\* task while another task was stored.
C3_Witness ==
    /\ last.op = "update" /\ last.status = 200
    /\ last.data.task_status.s = "archived"
    /\ last.data.task_title.s = <<"a", " ", "a">>
    /\ Cardinality(store) >= 2
    /\ \E r \in store : r.task_id = last.id /\ r.task_title = <<"a", " ", "a">>
    /\ \E r \in store : r.task_id # last.id /\ r.task_title = <<"a">>

\* C4: a GET of the task_id a create returned, with no step of a PUT or
\* DELETE of that id in between, returns 200 with the task_title,
\* task_status and created_at of the create response.
C4_CreateGetRoundTrip ==
    last.op = "get" =>
        \A b \in fresh :
            b.task_id = last.id =>
                /\ last.status = 200
                /\ \E g \in last.body :
                      /\ g.task_title = b.task_title
                      /\ g.task_status = b.task_status
                      /\ g.created_at = b.created_at

\* A GET of the second task created, untouched since, with both stored.
C4_Witness ==
    /\ last.op = "get" /\ last.id = 2
    /\ \E b \in fresh : b.task_id = 2
    /\ Cardinality(store) = 2

\* C5: a DELETE that finds its id stored goes on to delete the task and
\* answers 204; every GET, PUT with a valid field and DELETE that starts
\* after some DELETE of its id answered 204 answers 404; a DELETE of an
\* absent id answers 404 and leaves the store unchanged.
C5_DeleteIsPermanent ==
    [][/\ \A g \in BagToSet(procs') :
             /\ (g.pc = "remove_delete" /\ Starts(g)) => HasRow(store, g.id)
             /\ (g.pc \in {"remove_delete", "modify_update"} /\ Starts(g))
                  => g.id \notin deleted
       /\ \A h \in BagToSet(procs) :
             (h.pc = "remove_delete" /\ Leaves(h))
                => (last'.status = 204 /\ ~HasRow(store', h.id))
       /\ (Answered /\ last'.op = "delete")
            => /\ ~HasRow(store, last'.id)
               /\ last'.status = 404
               /\ store' = store
       /\ ( /\ Answered
            /\ last'.id \in deleted
            /\ \/ last'.op = "get"
               \/ /\ last'.op = "update"
                  /\ \/ ValidTitleValue(last'.data.task_title)
                     \/ ValidStatusValue(last'.data.task_status))
            => last'.status = 404]_vars

\* C6: a request answered with 400 is rejected before any store interaction:
\* it is answered in its first step, no connection is opened and the stored
\* tasks are the same before and after.
C6_BadRequestTouchesNothing ==
    [][last'.status = 400
         => (Answered /\ store' = store /\ seq' = seq /\ last'.conn = "none")]_vars

\* A PUT of an existing task with only an invalid status was answered 400.
C6_Witness ==
    /\ last.op = "update" /\ last.status = 400
    /\ HasRow(store, last.id)
    /\ last.data.task_title.t = "absent"
    /\ last.data.task_status.s = "archived"

\* C7: a PUT on an existing id with the body {} is answered 400 with the
\* message 'Nothing to update'.
C7_EmptyObjectNothingToUpdate ==
    (last.op = "update" /\ last.data = EmptyObject /\ HasRow(store, last.id))
        => (last.status = 400 /\ last.error = "Nothing to update")

\* C8: when the log write fails, the handler still does what it does with
\* the log write succeeding: the same store operation and the same response.
C8_LogFailureHarmless ==
    [][~last'.logOk
         => \E r \in {FirstStep(last'.op, last'.id, last'.data, TRUE,
                                last'.fault, db)} :
              /\ r.next = "idle"
              /\ last'.status = r.status
              /\ last'.error = r.error
              /\ last'.body = r.body
              /\ store' = r.db.rows]_vars

\* C9: a connection a handler opened is closed when the handler returns, on
\* every exit path.
C9_ConnectionsClosed == last.conn # "open"

\* C10: at most one DELETE of a given id is answered 204.
C10_AtMostOne204 == \A i \in TaskIds : gone[i] <= 1

====
